---- MODULE Spec2Model ----
(***************************************************************************)
(* Model of tools/generate-fix-dictionary.py: the conversion of the FIX    *)
(* repository tables (Fields, Enums, Messages, Components, MsgContents)    *)
(* of each requested version into one simplified dictionary document.      *)
(*                                                                         *)
(* Conventions.                                                            *)
(*  - A text is a sequence of one-character strings, so that isdigit, int, *)
(*    str, slicing and sorting are computed as Python computes them.       *)
(*    ElementTree gives None for an element without text; None is written  *)
(*    NoText (the empty sequence): the only test the program makes on such *)
(*    a value is its truthiness (line 227), where None and '' agree.       *)
(*  - A Python dict is a sequence of [key, val] entries with distinct      *)
(*    keys, in insertion order (the order dict iteration follows).         *)
(*  - The tables are well formed where the program would otherwise raise   *)
(*    on a malformed record (every Tag is a digit string, every required   *)
(*    child element is present and has text).                              *)
(***************************************************************************)
EXTENDS Integers, Sequences, FiniteSets, TLC

VARIABLES
    argv,               \* sys.argv[1:]
    repoKind,           \* the repository path: "missing", "flat" or "nested"
    baseDir,            \* version -> [exists, files]: <repo>/<version>/Base
    fieldsXml,          \* records of Fields.xml
    enumsXml,           \* records of Enums.xml
    messagesXml,        \* records of Messages.xml
    componentsXml,      \* records of Components.xml
    contentsXml,        \* records of MsgContents.xml
    pc,                 \* position of the run
    versions,           \* main: the version list
    vi,                 \* main: index of the version of the for loop
    fields,             \* process_version: tag -> field record
    messages,           \* process_version: dict componentId -> message
    components,         \* process_version: dict componentId -> component
    component_contents, \* process_version: dict componentId -> sorted rows
    groups,             \* process_version: dict name -> group
    outputs,            \* output directory: file name -> document
    log                 \* standard output, one entry per printed event

vars == <<argv, repoKind, baseDir, fieldsXml, enumsXml, messagesXml,
          componentsXml, contentsXml, pc, versions, vi, fields, messages,
          components, component_contents, groups, outputs, log>>

(***************************************************************************)
(* Texts                                                                   *)
(***************************************************************************)
NoText == <<>>

Chars ==
    <<".", "0", "1", "2", "3", "4", "5", "6", "7", "8", "9",
      "A", "B", "C", "D", "E", "F", "G", "H", "I", "J", "K", "L", "M",
      "N", "O", "P", "Q", "R", "S", "T", "U", "V", "W", "X", "Y", "Z",
      "a", "b", "c", "d", "e", "f", "g", "h", "i", "j", "k", "l", "m",
      "n", "o", "p", "q", "r", "s", "t", "u", "v", "w", "x", "y", "z">>

Digits == <<"0", "1", "2", "3", "4", "5", "6", "7", "8", "9">>

\* ord(c), up to the order-preserving renumbering of the characters in use
Ord(c) == CHOOSE i \in 1..Len(Chars) : Chars[i] = c

\* s < t for Python strings: lexicographic by code point
RECURSIVE StrLess(_, _)
StrLess(s, t) ==
    IF t = <<>> THEN FALSE
    ELSE IF s = <<>> THEN TRUE
    ELSE IF s[1] = t[1] THEN StrLess(Tail(s), Tail(t))
    ELSE Ord(s[1]) < Ord(t[1])

\* str.isdigit(): non-empty and every character a digit
IsDigit(s) ==
    /\ Len(s) > 0
    /\ \A i \in 1..Len(s) : \E d \in 1..10 : Digits[d] = s[i]

DigitVal(c) == (CHOOSE d \in 1..10 : Digits[d] = c) - 1

\* int(s) for a digit string
RECURSIVE ToInt(_)
ToInt(s) ==
    IF Len(s) = 0 THEN 0
    ELSE 10 * ToInt(SubSeq(s, 1, Len(s) - 1)) + DigitVal(s[Len(s)])

\* str(n) for n >= 0
RECURSIVE ToStr(_)
ToStr(n) ==
    IF n < 10 THEN <<Digits[n + 1]>>
    ELSE ToStr(n \div 10) \o <<Digits[(n % 10) + 1]>>

\* s[:n]
Prefix(s, n) == SubSeq(s, 1, IF Len(s) < n THEN Len(s) ELSE n)

\* s.replace('.', '')
RECURSIVE StripDots(_)
StripDots(s) ==
    IF s = <<>> THEN <<>>
    ELSE IF s[1] = "." THEN StripDots(Tail(s))
    ELSE <<s[1]>> \o StripDots(Tail(s))

\* a text of n copies of c
Rep(c, n) == [i \in 1..n |-> c]

StandardHeader ==
    <<"S", "t", "a", "n", "d", "a", "r", "d", "H", "e", "a", "d", "e", "r">>

StandardTrailer ==
    <<"S", "t", "a", "n", "d", "a", "r", "d", "T", "r", "a", "i", "l", "e", "r">>

\* the length descriptions are cut to
TruncLen == 100

\* Python's None for an int
None == -1

(***************************************************************************)
(* Python dicts and sorting                                                *)
(***************************************************************************)
DictKeys(d) == [i \in 1..Len(d) |-> d[i].key]

DictHas(d, k) == \E i \in 1..Len(d) : d[i].key = k

DictGet(d, k) == d[CHOOSE i \in 1..Len(d) : d[i].key = k].val

\* d[k] = v: a known key keeps its place, a new key goes last
DictSet(d, k, v) ==
    IF DictHas(d, k)
    THEN [i \in 1..Len(d) |-> IF d[i].key = k THEN [key |-> k, val |-> v] ELSE d[i]]
    ELSE Append(d, [key |-> k, val |-> v])

\* list.sort(key=...) / sorted(...): stable insertion into a sorted list of
\* [k, v] pairs, for integer keys and for string keys
RECURSIVE InsertByInt(_, _)
InsertByInt(x, s) ==
    IF s = <<>> THEN <<x>>
    ELSE IF x.k < s[1].k THEN <<x>> \o s
    ELSE <<s[1]>> \o InsertByInt(x, Tail(s))

RECURSIVE SortByInt(_)
SortByInt(s) ==
    IF s = <<>> THEN <<>>
    ELSE InsertByInt(s[Len(s)], SortByInt(SubSeq(s, 1, Len(s) - 1)))

RECURSIVE InsertByStr(_, _)
InsertByStr(x, s) ==
    IF s = <<>> THEN <<x>>
    ELSE IF StrLess(x.k, s[1].k) THEN <<x>> \o s
    ELSE <<s[1]>> \o InsertByStr(x, Tail(s))

RECURSIVE SortByStr(_)
SortByStr(s) ==
    IF s = <<>> THEN <<>>
    ELSE InsertByStr(s[Len(s)], SortByStr(SubSeq(s, 1, Len(s) - 1)))

Vals(s) == [i \in 1..Len(s) |-> s[i].v]

\* the elements of a finite set, in some order
RECURSIVE SetToSeq(_)
SetToSeq(S) ==
    IF S = {} THEN <<>>
    ELSE LET x == CHOOSE y \in S : TRUE IN <<x>> \o SetToSeq(S \ {x})

(***************************************************************************)
(* The loaders.  An XML child element is [present, text]; texts that the   *)
(* program only copies or compares for equality (identifiers, field names, *)
(* types) are written as TLA+ strings.                                     *)
(***************************************************************************)
Front(s) == SubSeq(s, 1, Len(s) - 1)

Last(s) == s[Len(s)]

EmptyDict == <<>>

\* parse_fields: tag -> field record; a later record of the same tag wins
RECURSIVE parse_fields(_)
parse_fields(xml) ==
    IF xml = <<>> THEN EmptyDict
    ELSE LET field == Last(xml)
             tag   == ToInt(field.Tag)
         IN  (tag :> [tag |-> tag, name |-> field.Name, type |-> field.Type,
                      enums |-> EmptyDict])
             @@ parse_fields(Front(xml))

\* line 50: the label of one Enum record
enum_description(enum) ==
    IF enum.SymbolicName.present THEN enum.SymbolicName.text
    ELSE IF enum.Description.present THEN enum.Description.text
    ELSE enum.Value

\* parse_enums: fields with the enum labels attached
RECURSIVE parse_enums(_, _)
parse_enums(xml, flds) ==
    IF xml = <<>> THEN flds
    ELSE LET prev  == parse_enums(Front(xml), flds)
             enum  == Last(xml)
             tag   == ToInt(enum.Tag)
             value == enum.Value
         IN  IF tag \in DOMAIN prev
             THEN [prev EXCEPT ![tag].enums =
                       (value :> enum_description(enum)) @@ prev[tag].enums]
             ELSE prev

RECURSIVE parse_messages(_)
parse_messages(xml) ==
    IF xml = <<>> THEN EmptyDict
    ELSE LET msg == Last(xml)
         IN  DictSet(parse_messages(Front(xml)), msg.ComponentID,
                     [componentId |-> msg.ComponentID, msgType |-> msg.MsgType,
                      name |-> msg.Name, tags |-> <<>>, groups |-> <<>>])

RECURSIVE parse_components(_)
parse_components(xml) ==
    IF xml = <<>> THEN EmptyDict
    ELSE LET comp == Last(xml)
         IN  DictSet(parse_components(Front(xml)), comp.ComponentID,
                     [componentId |-> comp.ComponentID, name |-> comp.Name,
                      type |-> comp.ComponentType, tags |-> <<>>, groups |-> <<>>])

(***************************************************************************)
(* parse_msg_contents                                                      *)
(***************************************************************************)
\* int(el.text) if el is not None else 0
OptInt(el) == IF el.present THEN ToInt(el.text) ELSE 0

\* lines 106-118: the rows of each owner, in file order
RECURSIVE group_contents(_)
group_contents(xml) ==
    IF xml = <<>> THEN EmptyDict
    ELSE LET prev    == group_contents(Front(xml))
             content == Last(xml)
             comp_id == content.ComponentID
             item    == [tagText  |-> content.TagText,
                         indent   |-> OptInt(content.Indent),
                         position |-> OptInt(content.Position)]
         IN  DictSet(prev, comp_id,
                     Append(IF DictHas(prev, comp_id) THEN DictGet(prev, comp_id)
                            ELSE <<>>, item))

\* the rows left in file order
sort_by_position_file_order(contents) == contents

\* line 122: contents.sort(key=lambda x: x['position'])
sort_by_position(contents) ==
    Vals(SortByInt([i \in 1..Len(contents) |->
                        [k |-> contents[i].position, v |-> contents[i]]]))

\* lines 121-122
sort_contents(cc) ==
    [i \in 1..Len(cc) |-> [key |-> cc[i].key, val |-> sort_by_position(cc[i].val)]]

\* no row taken for a placeholder
is_placeholder_never(tag_text) == FALSE

\* line 135
is_placeholder(tag_text) == tag_text \in {StandardHeader, StandardTrailer}

\* line 159: the first component of that name, as a sequence of 0 or 1 records
ref_comp(comps, tag_text) ==
    LET hits == {i \in 1..Len(comps) : comps[i].val.name = tag_text}
    IN  IF hits = {} THEN <<>>
        ELSE <<comps[CHOOSE i \in hits : \A j \in hits : i <= j].val>>

\* lines 131-165: what one row adds to its owner: [tags, groups] to append
item_entries(item, comps, flds) ==
    LET tag_text == item.tagText
        indent   == item.indent
        nothing  == [tags |-> <<>>, groups |-> <<>>]
    IN  IF is_placeholder(tag_text) THEN nothing
        ELSE IF IsDigit(tag_text)
        THEN LET tag == ToInt(tag_text)
             IN  IF tag \in DOMAIN flds
                 THEN IF flds[tag].type = "NumInGroup"
                      THEN [tags |-> <<>>,
                            groups |-> <<[kind |-> "countTag", countTag |-> tag,
                                          countName |-> flds[tag].name,
                                          indent |-> indent]>>]
                      ELSE [tags |-> <<[tag |-> tag, indent |-> indent]>>,
                            groups |-> <<>>]
                 ELSE nothing
        ELSE LET ref == ref_comp(comps, tag_text)
             IN  IF ref # <<>>
                 THEN [tags |-> <<>>,
                       groups |-> <<[kind |-> "componentRef",
                                     componentRef |-> ref[1].componentId,
                                     componentName |-> tag_text,
                                     indent |-> indent]>>]
                 ELSE nothing

\* lines 130-165: the rows of one owner, in order
RECURSIVE owner_entries(_, _, _)
owner_entries(contents, comps, flds) ==
    IF contents = <<>> THEN [tags |-> <<>>, groups |-> <<>>]
    ELSE LET prev == owner_entries(Front(contents), comps, flds)
             e    == item_entries(Last(contents), comps, flds)
         IN  [tags |-> prev.tags \o e.tags, groups |-> prev.groups \o e.groups]

\* target['tags'] and target['groups'] extended
extend(target, e) ==
    [target EXCEPT !.tags = @ \o e.tags, !.groups = @ \o e.groups]

\* lines 125-165: [messages, components] after the rows of every owner;
\* line 126: the message of that identifier if there is one, else the component
RECURSIVE associate(_, _, _, _)
associate(cc, msgs, comps, flds) ==
    IF cc = <<>> THEN [messages |-> msgs, components |-> comps]
    ELSE LET prev    == associate(Front(cc), msgs, comps, flds)
             comp_id == Last(cc).key
             e       == owner_entries(Last(cc).val, prev.components, flds)
         IN  IF DictHas(prev.messages, comp_id)
             THEN [prev EXCEPT !.messages =
                      DictSet(@, comp_id, extend(DictGet(@, comp_id), e))]
             ELSE IF DictHas(prev.components, comp_id)
             THEN [prev EXCEPT !.components =
                      DictSet(@, comp_id, extend(DictGet(@, comp_id), e))]
             ELSE prev

\* parse_msg_contents: [component_contents, messages, components]
parse_msg_contents(xml, msgs, comps, flds) ==
    LET cc == sort_contents(group_contents(xml))
        a  == associate(cc, msgs, comps, flds)
    IN  [component_contents |-> cc, messages |-> a.messages,
         components |-> a.components]

(***************************************************************************)
(* identify_repeating_groups                                               *)
(***************************************************************************)
\* the truth value of an int-or-None: neither None nor 0
Truthy(n) == n # None /\ n # 0

\* lines 181-196: count_tag, first_tag and member_tags after the rows
RECURSIVE scan_group(_, _)
scan_group(contents, flds) ==
    IF contents = <<>>
    THEN [count_tag |-> None, first_tag |-> None, member_tags |-> <<>>]
    ELSE LET prev     == scan_group(Front(contents), flds)
             item     == Last(contents)
             tag_text == item.tagText
             tag      == ToInt(tag_text)
         IN  IF IsDigit(tag_text) /\ tag \in DOMAIN flds
             THEN IF flds[tag].type = "NumInGroup" /\ prev.count_tag = None
                  THEN [prev EXCEPT !.count_tag = tag]
                  ELSE IF item.indent >= 1
                  THEN [prev EXCEPT
                           !.first_tag = IF @ = None THEN tag ELSE @,
                           !.member_tags = Append(@, tag)]
                  ELSE prev
             ELSE prev

\* a group emitted as soon as it has a count tag
emit_group_count_only(g) == Truthy(g.count_tag)

\* line 198: if count_tag and first_tag
emit_group(g) == Truthy(g.count_tag) /\ Truthy(g.first_tag)

\* component_contents.get(comp_id, [])
contents_of(cc, comp_id) == IF DictHas(cc, comp_id) THEN DictGet(cc, comp_id) ELSE <<>>

\* lines 172-206
RECURSIVE identify_repeating_groups(_, _, _)
identify_repeating_groups(comps, cc, flds) ==
    IF comps = <<>> THEN EmptyDict
    ELSE LET prev     == identify_repeating_groups(Front(comps), cc, flds)
             comp     == Last(comps).val
             contents == contents_of(cc, Last(comps).key)
             g        == scan_group(contents, flds)
         IN  IF comp.type = "BlockRepeating" /\ contents # <<>> /\ emit_group(g)
             THEN DictSet(prev, comp.name,
                          [name |-> comp.name, countTag |-> g.count_tag,
                           firstTag |-> g.first_tag, memberTags |-> g.member_tags])
             ELSE prev

(***************************************************************************)
(* generate_xml: the element tree, attributes as texts                     *)
(***************************************************************************)
RECURSIVE Flatten(_)
Flatten(ss) == IF ss = <<>> THEN <<>> ELSE Flatten(Front(ss)) \o Last(ss)

\* line 227: desc[:100] if desc else value
enum_desc_attr(value, desc) == IF desc # NoText THEN Prefix(desc, TruncLen) ELSE value

\* lines 224-227: the enum elements of one field, sorted by value
enum_elements(field) ==
    LET items == SetToSeq(DOMAIN field.enums)
        order == Vals(SortByStr([i \in 1..Len(items) |-> [k |-> items[i], v |-> items[i]]]))
    IN  [i \in 1..Len(order) |->
            [value |-> order[i], desc |-> enum_desc_attr(order[i], field.enums[order[i]])]]

\* lines 215-227
fields_section(flds) ==
    LET tags  == SetToSeq(DOMAIN flds)
        order == Vals(SortByInt([i \in 1..Len(tags) |-> [k |-> tags[i], v |-> tags[i]]]))
    IN  [i \in 1..Len(order) |->
            [tag |-> ToStr(flds[order[i]].tag), name |-> flds[order[i]].name,
             type |-> flds[order[i]].type, enums |-> enum_elements(flds[order[i]])]]

\* lines 230-240
groups_section(grps) ==
    LET order == Vals(SortByStr([i \in 1..Len(grps) |-> [k |-> grps[i].key, v |-> grps[i].val]]))
    IN  [i \in 1..Len(order) |->
            [name |-> order[i].name, countTag |-> ToStr(order[i].countTag),
             firstTag |-> ToStr(order[i].firstTag),
             members |-> [m \in 1..Len(order[i].memberTags) |->
                              ToStr(order[i].memberTags[m])]]]

\* a component reference emitted whether or not its name is a group
group_ref_unchecked(group_info, grps) ==
    IF group_info.kind = "countTag"
    THEN LET hits == {i \in 1..Len(grps) : grps[i].val.countTag = group_info.countTag}
         IN  IF hits = {} THEN <<>>
             ELSE <<grps[CHOOSE i \in hits : \A j \in hits : i <= j].key>>
    ELSE <<group_info.componentName>>

\* lines 257-272: the groupRef elements (0 or 1) of one group reference
group_ref(group_info, grps) ==
    IF group_info.kind = "countTag"
    THEN LET hits == {i \in 1..Len(grps) : grps[i].val.countTag = group_info.countTag}
         IN  IF hits = {} THEN <<>>
             ELSE <<grps[CHOOSE i \in hits : \A j \in hits : i <= j].key>>
    ELSE IF DictHas(grps, group_info.componentName)
         THEN <<group_info.componentName>>
         ELSE <<>>

\* lines 245-272
message_element(msg, grps) ==
    [msgType   |-> msg.msgType,
     name      |-> msg.name,
     tags      |-> [i \in 1..Len(msg.tags) |-> ToStr(msg.tags[i].tag)],
     groupRefs |-> Flatten([i \in 1..Len(msg.groups) |-> group_ref(msg.groups[i], grps)])]

\* lines 243-272
messages_section(msgs, grps) ==
    LET order == Vals(SortByStr([i \in 1..Len(msgs) |->
                                    [k |-> msgs[i].val.msgType, v |-> msgs[i].val]]))
    IN  [i \in 1..Len(order) |-> message_element(order[i], grps)]

\* lines 211-272
generate_xml(version, flds, msgs, comps, grps) ==
    [version  |-> version,
     fields   |-> fields_section(flds),
     groups   |-> groups_section(grps),
     messages |-> messages_section(msgs, grps)]

\* line 311
output_name(version) == StripDots(version) \o <<".", "x", "m", "l">>

(***************************************************************************)
(* The run: main, and process_version step by step                         *)
(***************************************************************************)
Fix(minor) == <<"F", "I", "X", ".", "4", ".", minor>>

\* line 324
DefaultVersions == <<Fix("0"), Fix("1"), Fix("2"), Fix("3"), Fix("4")>>

Files == {"Fields.xml", "Enums.xml", "Messages.xml", "Components.xml", "MsgContents.xml"}

NoDir == [exists |-> FALSE, files |-> {}]

Dir(files) == [exists |-> TRUE, files |-> files]

version == versions[vi]

\* the locals of a call of process_version before it assigns them; the ones of
\* the call before are dead by then
NoLocals ==
    /\ fields' = EmptyDict
    /\ messages' = EmptyDict
    /\ components' = EmptyDict
    /\ component_contents' = EmptyDict
    /\ groups' = EmptyDict

inputs == <<argv, repoKind, baseDir, fieldsXml, enumsXml, messagesXml,
            componentsXml, contentsXml>>

locals == <<fields, messages, components, component_contents, groups>>

\* lines 316-335
Main ==
    /\ pc = "main"
    /\ IF Len(argv) < 2
       THEN /\ pc' = "exit1"
            /\ log' = Append(log, [ev |-> "usage"])
            /\ UNCHANGED versions
       ELSE /\ versions' = IF Len(argv) > 2 THEN SubSeq(argv, 3, Len(argv))
                           ELSE DefaultVersions
            /\ IF repoKind = "missing"
               THEN /\ pc' = "exit1"
                    /\ log' = Append(log, [ev |-> "error"])
               ELSE /\ pc' = "for"
                    /\ log' = log
    /\ UNCHANGED <<inputs, vi, locals, outputs>>

\* lines 337-338 and 294-300: the next version, skipped if its directory is missing
ProcessVersion ==
    /\ pc = "for"
    /\ vi <= Len(versions)
    /\ IF ~baseDir[version].exists
       THEN /\ log' = Append(log, [ev |-> "warning", version |-> version])
            /\ vi' = vi + 1
            /\ pc' = "for"
       ELSE /\ log' = Append(log, [ev |-> "processing", version |-> version])
            /\ vi' = vi
            /\ pc' = "parse_fields"
    /\ NoLocals
    /\ UNCHANGED <<inputs, versions, outputs>>

\* ET.parse of a table of the version: raises when the file is absent, and
\* nothing catches it
Readable(file) == file \in baseDir[version].files

\* line 303
ParseFields ==
    /\ pc = "parse_fields"
    /\ IF Readable("Fields.xml")
       THEN /\ fields' = parse_fields(fieldsXml)
            /\ pc' = "parse_enums"
       ELSE /\ pc' = "crashed"
            /\ UNCHANGED fields
    /\ UNCHANGED <<inputs, versions, vi, messages, components,
                   component_contents, groups, outputs, log>>

\* line 304
ParseEnums ==
    /\ pc = "parse_enums"
    /\ IF Readable("Enums.xml")
       THEN /\ fields' = parse_enums(enumsXml, fields)
            /\ pc' = "parse_messages"
       ELSE /\ pc' = "crashed"
            /\ UNCHANGED fields
    /\ UNCHANGED <<inputs, versions, vi, messages, components,
                   component_contents, groups, outputs, log>>

\* line 305
ParseMessages ==
    /\ pc = "parse_messages"
    /\ IF Readable("Messages.xml")
       THEN /\ messages' = parse_messages(messagesXml)
            /\ pc' = "parse_components"
       ELSE /\ pc' = "crashed"
            /\ UNCHANGED messages
    /\ UNCHANGED <<inputs, versions, vi, fields, components,
                   component_contents, groups, outputs, log>>

\* line 306
ParseComponents ==
    /\ pc = "parse_components"
    /\ IF Readable("Components.xml")
       THEN /\ components' = parse_components(componentsXml)
            /\ pc' = "parse_msg_contents"
       ELSE /\ pc' = "crashed"
            /\ UNCHANGED components
    /\ UNCHANGED <<inputs, versions, vi, fields, messages,
                   component_contents, groups, outputs, log>>

\* line 307
ParseMsgContents ==
    /\ pc = "parse_msg_contents"
    /\ IF Readable("MsgContents.xml")
       THEN LET r == parse_msg_contents(contentsXml, messages, components, fields)
            IN  /\ component_contents' = r.component_contents
                /\ messages' = r.messages
                /\ components' = r.components
                /\ pc' = "identify_repeating_groups"
       ELSE /\ pc' = "crashed"
            /\ UNCHANGED <<component_contents, messages, components>>
    /\ UNCHANGED <<inputs, versions, vi, fields, groups, outputs, log>>

\* line 308
IdentifyRepeatingGroups ==
    /\ pc = "identify_repeating_groups"
    /\ groups' = identify_repeating_groups(components, component_contents, fields)
    /\ pc' = "generate_xml"
    /\ UNCHANGED <<inputs, versions, vi, fields, messages, components,
                   component_contents, outputs, log>>

\* lines 311-313 and the return to the loop of main
GenerateXml ==
    /\ pc = "generate_xml"
    /\ outputs' = (output_name(version) :>
                      generate_xml(version, fields, messages, components, groups))
                  @@ outputs
    /\ log' = Append(log, [ev |-> "generated", version |-> version])
    /\ vi' = vi + 1
    /\ pc' = "for"
    /\ UNCHANGED <<inputs, versions, locals>>

\* line 340
Finish ==
    /\ pc = "for"
    /\ vi > Len(versions)
    /\ log' = Append(log, [ev |-> "done"])
    /\ pc' = "done"
    /\ UNCHANGED <<inputs, versions, vi, locals, outputs>>

Next ==
    \/ Main
    \/ ProcessVersion
    \/ ParseFields
    \/ ParseEnums
    \/ ParseMessages
    \/ ParseComponents
    \/ ParseMsgContents
    \/ IdentifyRepeatingGroups
    \/ GenerateXml
    \/ Finish

(***************************************************************************)
(* The inputs                                                              *)
(***************************************************************************)
El(text) == [present |-> TRUE, text |-> text]

Absent == [present |-> FALSE, text |-> NoText]

OrdersGroup == <<"O", "r", "d", "e", "r", "s", "G", "r", "o", "u", "p">>

Range(s) == {s[i] : i \in 1..Len(s)}

\* sequences over S of length at most n
SeqsUpTo(S, n) == UNION {[1..k -> S] : k \in 0..n}

BaseFieldsXml ==
    <<[Tag |-> <<"1">>, Name |-> "Account", Type |-> "STRING"],
      [Tag |-> <<"2">>, Name |-> "NoOrders", Type |-> "NumInGroup"],
      [Tag |-> <<"5", "5">>, Name |-> "Symbol", Type |-> "STRING"]>>

BaseEnumsXml ==
    <<[Tag |-> <<"1">>, Value |-> <<"A">>,
       SymbolicName |-> El(<<"A", "c", "c", "o", "u", "n", "t", "A">>),
       Description |-> Absent]>>

BaseMessagesXml ==
    <<[ComponentID |-> "14", MsgType |-> <<"D">>, Name |-> "NewOrderSingle"]>>

BaseComponentsXml ==
    <<[ComponentID |-> "1001", Name |-> OrdersGroup, ComponentType |-> "BlockRepeating"],
      [ComponentID |-> "1002", Name |-> StandardHeader, ComponentType |-> "Block"]>>

BaseContentsXml ==
    <<[ComponentID |-> "14", TagText |-> OrdersGroup,
       Indent |-> El(<<"0">>), Position |-> El(<<"1">>)],
      [ComponentID |-> "1001", TagText |-> <<"2">>,
       Indent |-> El(<<"0">>), Position |-> El(<<"1">>)],
      [ComponentID |-> "1001", TagText |-> <<"1">>,
       Indent |-> El(<<"1">>), Position |-> El(<<"2">>)]>>

RepoPath == <<"r", "e", "p", "o">>

OutputDir == <<"o", "u", "t">>

\* the program counters and locals at the start of a run
InitRun ==
    /\ pc = "main"
    /\ versions = <<>>
    /\ vi = 1
    /\ fields = EmptyDict
    /\ messages = EmptyDict
    /\ components = EmptyDict
    /\ component_contents = EmptyDict
    /\ groups = EmptyDict
    /\ outputs = EmptyDict
    /\ log = <<>>

\* one version, every table present
InitOneVersion ==
    /\ argv = <<RepoPath, OutputDir, Fix("2")>>
    /\ repoKind = "flat"
    /\ baseDir = [v \in {Fix("2")} |-> Dir(Files)]

\* the most rows MsgContents.xml has
MaxRows == 3

\* the positions of the rows are 1..MaxPos where the order of the rows is
\* examined, and 1..MaxRefPos elsewhere
MaxPos == 3

MaxRefPos == 2

Row(comp_id, tag_text, indent, position) ==
    [ComponentID |-> comp_id, TagText |-> tag_text,
     Indent |-> El(ToStr(indent)), Position |-> El(ToStr(position))]

\* rows of the message, of every kind of tag-text, a few rows of the repeating
\* component and a row of an owner that no table declares
ContentRows ==
    {Row("14", tt, 0, p) :
        tt \in {<<"1">>, <<"2">>, <<"9">>, OrdersGroup, StandardHeader},
        p \in 1..MaxRefPos}
    \cup
    {Row("1001", <<"2">>, 0, 1), Row("1001", <<"1">>, 1, 2),
     Row("1001", StandardTrailer, 1, 1), Row("9999", <<"1">>, 0, 1)}

\* rows of the message and of the repeating component, at any position
OrderRows ==
    {Row("14", tt, 0, p) :
        tt \in {<<"1">>, <<"5", "5">>, <<"2">>, OrdersGroup}, p \in 1..MaxPos}
    \cup
    {Row("1001", <<"5", "5">>, 1, p) : p \in 1..MaxPos}

\* rows of the repeating component, at any indent and position
GroupRows ==
    {Row("1001", tt, i, p) :
        tt \in {<<"1">>, <<"2">>, <<"9">>}, i \in 0..1, p \in 1..MaxRefPos}
    \cup
    {Row("1001", StandardHeader, 1, 1)}

InitTables ==
    /\ fieldsXml = BaseFieldsXml
    /\ enumsXml = BaseEnumsXml
    /\ messagesXml = BaseMessagesXml
    /\ componentsXml = BaseComponentsXml

\* the references of a message
Init ==
    /\ InitRun
    /\ InitOneVersion
    /\ InitTables
    /\ contentsXml \in SeqsUpTo(ContentRows, MaxRows)

Spec == Init /\ [][Next]_vars

\* the order of the rows
InitOrder ==
    /\ InitRun
    /\ InitOneVersion
    /\ InitTables
    /\ contentsXml \in SeqsUpTo(OrderRows, MaxRows)

SpecOrder == InitOrder /\ [][Next]_vars

\* the rows of a repeating component
InitGroups ==
    /\ InitRun
    /\ InitOneVersion
    /\ InitTables
    /\ contentsXml \in SeqsUpTo(GroupRows, MaxRows)

SpecGroups == InitGroups /\ [][Next]_vars

\* the most records Enums.xml has
MaxEnums == 2

\* a value and a description one character longer than descriptions are cut to
LongValue == Rep("x", TruncLen + 1)

LongDescription == Rep("y", TruncLen + 1)

\* Enum records of a loaded and of an unknown tag, the SymbolicName and the
\* Description each absent, empty or with text
EnumRecords ==
    [Tag : {<<"1">>, <<"9">>},
     Value : {<<"A">>, LongValue},
     SymbolicName : {Absent, El(NoText), El(<<"N">>)},
     Description : {Absent, El(NoText), El(<<"D">>), El(LongDescription)}]

\* the enum table
InitEnums ==
    /\ InitRun
    /\ InitOneVersion
    /\ fieldsXml = BaseFieldsXml
    /\ enumsXml \in SeqsUpTo(EnumRecords, MaxEnums)
    /\ messagesXml = BaseMessagesXml
    /\ componentsXml = BaseComponentsXml
    /\ contentsXml = BaseContentsXml

SpecEnums == InitEnums /\ [][Next]_vars

\* the most versions the command line names
MaxVersions == 3

RequestedVersions == {Fix("0"), Fix("1"), Fix("2")}

\* a Base directory: missing, complete, or without one of its tables
DirStates == {NoDir, Dir(Files)} \cup {Dir(Files \ {f}) : f \in Files}

\* the command line and the directories of the repository
InitMain ==
    /\ InitRun
    /\ InitTables
    /\ contentsXml = BaseContentsXml
    /\ argv \in {<<>>, <<RepoPath>>}
               \cup {<<RepoPath, OutputDir>> \o vs :
                        vs \in SeqsUpTo(RequestedVersions, MaxVersions)}
    /\ repoKind \in {"missing", "flat", "nested"}
    /\ baseDir \in {d \in [Range(DefaultVersions) -> DirStates] :
                       \A v \in Range(DefaultVersions) \ RequestedVersions :
                           d[v] = NoDir}

SpecMain == InitMain /\ [][Next]_vars

(***************************************************************************)
(* Properties                                                              *)
(***************************************************************************)
\* parse_msg_contents has returned and the locals of the call are live
Associated == pc \in {"identify_repeating_groups", "generate_xml"}

\* generate_xml has returned for the version before versions[vi]
Generated == pc \in {"for", "done"} /\ vi > 1 /\ baseDir[versions[vi - 1]].exists

\* the document written for the version before versions[vi]
Doc == outputs[output_name(versions[vi - 1])]

\* the rows of the file that belong to one owner, in file order
FileRows(comp_id) ==
    LET Mine(content) == content.ComponentID = comp_id
    IN  SelectSeq(contentsXml, Mine)

RowPos(content) == ToInt(content.Position.text)

RowItem(content) ==
    [tagText |-> content.TagText, indent |-> ToInt(content.Indent.text),
     position |-> RowPos(content)]

\* the identifiers of the owners the tables declare
Owners == Range(DictKeys(messages)) \cup Range(DictKeys(components))

\* line 126: the record the rows of an owner go to
Target(comp_id) ==
    IF DictHas(messages, comp_id) THEN DictGet(messages, comp_id)
    ELSE DictGet(components, comp_id)

Permutations1(n) == {f \in [1..n -> 1..n] : \A i, j \in 1..n : f[i] = f[j] => i = j}

\* L is F in ascending position order, rows of equal position in file order
InPositionOrder(L, F) ==
    /\ Len(L) = Len(F)
    /\ \E f \in Permutations1(Len(F)) :
          /\ \A i \in 1..Len(F) : L[i] = RowItem(F[f[i]])
          /\ \A i, j \in 1..Len(F) :
                i < j => \/ RowPos(F[f[i]]) < RowPos(F[f[j]])
                         \/ RowPos(F[f[i]]) = RowPos(F[f[j]]) /\ f[i] < f[j]

KnownField(item) == IsDigit(item.tagText) /\ ToInt(item.tagText) \in DOMAIN fields

ScalarRow(item) ==
    KnownField(item) /\ fields[ToInt(item.tagText)].type # "NumInGroup"

CountRow(item) ==
    KnownField(item) /\ fields[ToInt(item.tagText)].type = "NumInGroup"

ComponentRow(item) ==
    /\ ~IsDigit(item.tagText)
    /\ item.tagText \notin {StandardHeader, StandardTrailer}
    /\ \E c \in Range(components) : c.val.name = item.tagText

GroupRefRow(item) == CountRow(item) \/ ComponentRow(item)

\* the tag of a scalar entry, the count tag or the component name of a group
\* reference, with the indent: what an entry keeps of the row that produced it
ItemMark(item) ==
    IF IsDigit(item.tagText) THEN <<ToInt(item.tagText), item.indent>>
    ELSE <<item.tagText, item.indent>>

TagMark(e) == <<e.tag, e.indent>>

GroupMark(e) ==
    IF e.kind = "countTag" THEN <<e.countTag, e.indent>>
    ELSE <<e.componentName, e.indent>>

Marks(s, Mark(_)) == [i \in 1..Len(s) |-> Mark(s[i])]

\* C4: every owner's rows are processed in ascending position order, rows of
\* equal position in file order, and the owner's scalar tag list and group
\* reference list are the scalar rows and the group rows in that order
C4_PositionOrder ==
    Associated =>
        \A o \in Owners :
            LET F == FileRows(o)
                L == contents_of(component_contents, o)
            IN  /\ InPositionOrder(L, F)
                /\ Marks(Target(o).tags, TagMark)
                       = Marks(SelectSeq(L, ScalarRow), ItemMark)
                /\ Marks(Target(o).groups, GroupMark)
                       = Marks(SelectSeq(L, GroupRefRow), ItemMark)

\* rows of one owner given out of position order, and two of equal position
C4_Witness ==
    /\ Associated
    /\ \E i, j, k \in 1..Len(contentsXml) :
          /\ i < j /\ j < k
          /\ contentsXml[i].ComponentID = "14"
          /\ contentsXml[j].ComponentID = "14"
          /\ contentsXml[k].ComponentID = "14"
          /\ RowPos(contentsXml[i]) = 3
          /\ RowPos(contentsXml[j]) = 1
          /\ RowPos(contentsXml[k]) = 2
          /\ ScalarRow(RowItem(contentsXml[i]))
          /\ ScalarRow(RowItem(contentsXml[j]))
          /\ contentsXml[i].TagText # contentsXml[j].TagText
    /\ Len(DictGet(messages, "14").tags) >= 2

\* identify_repeating_groups has returned and the locals of the call are live
Identified == pc = "generate_xml" \/ Generated

Placeholder(content) == content.TagText \in {StandardHeader, StandardTrailer}

\* the file without its placeholder rows
CleanContents ==
    LET Kept(content) == ~Placeholder(content)
    IN  SelectSeq(contentsXml, Kept)

\* what the file without its placeholder rows is associated to
CleanAssociation ==
    parse_msg_contents(CleanContents, parse_messages(messagesXml),
                       parse_components(componentsXml), fields)

\* C5: a StandardHeader or StandardTrailer row produces no scalar tag, no
\* group-start reference, no component reference, no count tag and no member:
\* no entry carries a placeholder name, and every tag list, reference list and
\* group is what the same file without its placeholder rows gives
C5_PlaceholderRowsProduceNothing ==
    /\ Associated \/ Identified =>
          /\ \A o \in Owners : \A e \in Range(Target(o).groups) :
                e.kind = "componentRef" =>
                    e.componentName \notin {StandardHeader, StandardTrailer}
          /\ messages = CleanAssociation.messages
          /\ components = CleanAssociation.components
    /\ Identified =>
          groups = identify_repeating_groups(CleanAssociation.components,
                       CleanAssociation.component_contents, fields)

\* a message with a StandardHeader row and a repeating component with a
\* StandardTrailer row, when a component named StandardHeader is declared
C5_Witness ==
    /\ Identified
    /\ \E c \in Range(components) : c.val.name = StandardHeader
    /\ \E content \in Range(contentsXml) :
          content.ComponentID = "14" /\ content.TagText = StandardHeader
    /\ \E content \in Range(contentsXml) :
          content.ComponentID = "1001" /\ content.TagText = StandardTrailer
    /\ \E content \in Range(contentsXml) : ~Placeholder(content)

\* the groupRef elements a group reference of a message is to give: for a
\* group start the first group of that count tag, for a component reference
\* the component's name if it is the name of a group
ExpectedRefs(group_info) ==
    IF group_info.kind = "countTag"
    THEN IF \E i \in 1..Len(groups) : groups[i].val.countTag = group_info.countTag
         THEN LET first == CHOOSE i \in 1..Len(groups) :
                               /\ groups[i].val.countTag = group_info.countTag
                               /\ \A j \in 1..(i - 1) :
                                     groups[j].val.countTag # group_info.countTag
              IN  <<groups[first].key>>
         ELSE <<>>
    ELSE IF group_info.componentName \in Range(DictKeys(groups))
         THEN <<group_info.componentName>>
         ELSE <<>>

RepeatingComponents ==
    {c.val : c \in {c \in Range(components) : c.val.type = "BlockRepeating"}}

\* the rows of a component in the order they are scanned
Scanned(comp) == contents_of(component_contents, comp.componentId)

\* the index of the first count row among the scanned rows, 0 if there is none
FirstCountRow(L) ==
    IF \E i \in 1..Len(L) : CountRow(L[i])
    THEN CHOOSE i \in 1..Len(L) :
             CountRow(L[i]) /\ \A j \in 1..(i - 1) : ~CountRow(L[j])
    ELSE 0

\* the rows of known fields at indent >= 1, the first count row apart
MemberRows(L) ==
    {i \in 1..Len(L) : KnownField(L[i]) /\ L[i].indent >= 1 /\ i # FirstCountRow(L)}

\* C1: the count tag of a group is none of its member tags
C1_CountTagNotMember ==
    Identified =>
        \A g \in Range(groups) : g.val.countTag \notin Range(g.val.memberTags)

\* C2: every group has a count tag and a non-empty member list that starts
\* with its first tag, in the groups mapping and in the document; a repeating
\* component without a count row, without a member row or without any row is
\* no group
C2_NoEmptyGroup ==
    /\ Identified =>
          /\ \A g \in Range(groups) :
                /\ g.val.countTag # None
                /\ g.val.memberTags # <<>>
                /\ g.val.memberTags[1] = g.val.firstTag
          /\ \A comp \in RepeatingComponents :
                \/ Scanned(comp) = <<>>
                \/ FirstCountRow(Scanned(comp)) = 0
                \/ MemberRows(Scanned(comp)) = {}
                => comp.name \notin Range(DictKeys(groups))
    /\ Generated =>
          /\ Len(Doc.groups) = Len(groups)
          /\ \A g \in Range(Doc.groups) :
                g.members # <<>> /\ g.members[1] = g.firstTag

\* a repeating component with a count row and no member row, left out
C2_Witness ==
    /\ Generated
    /\ \E comp \in RepeatingComponents :
          /\ FirstCountRow(Scanned(comp)) # 0
          /\ MemberRows(Scanned(comp)) = {}
          /\ Len(Scanned(comp)) >= 2
    /\ groups = <<>>
    /\ Doc.groups = <<>>

\* C8: the count tag of a group is the tag of the first count row in position
\* order, and its member tags are the tags of the rows after that row that
\* are at indent >= 1 and of a known field, in position order
C8_MembersFollowCountRow ==
    Identified =>
        \A comp \in RepeatingComponents :
            comp.name \in Range(DictKeys(groups)) =>
                LET L == Scanned(comp)
                    c == FirstCountRow(L)
                    After(item) == KnownField(item) /\ item.indent >= 1
                    rows == SelectSeq(SubSeq(L, c + 1, Len(L)), After)
                    g == DictGet(groups, comp.name)
                IN  /\ c # 0
                    /\ g.countTag = ToInt(L[c].tagText)
                    /\ g.memberTags = [i \in 1..Len(rows) |-> ToInt(rows[i].tagText)]

\* the Enum records of a tag and value, in file order
EnumsOf(tag, value) ==
    LET Mine(enum) == ToInt(enum.Tag) = tag /\ enum.Value = value
    IN  SelectSeq(enumsXml, Mine)

\* the label the precedence gives a record: the symbolic name if it has text,
\* else the description if it has text, else the raw value
Label(enum) ==
    IF enum.SymbolicName.present /\ enum.SymbolicName.text # NoText
    THEN enum.SymbolicName.text
    ELSE IF enum.Description.present /\ enum.Description.text # NoText
    THEN enum.Description.text
    ELSE enum.Value

\* C3: under every field of the document the enum values are distinct and no
\* desc is longer than the truncation length
C3_EnumValuesUniqueDescBounded ==
    Generated =>
        \A f \in Range(Doc.fields) :
            /\ \A i, j \in 1..Len(f.enums) :
                  f.enums[i].value = f.enums[j].value => i = j
            /\ \A e \in Range(f.enums) : Len(e.desc) <= TruncLen

\* C9: the enum elements of a field are the values of the Enum records of its
\* tag, and the desc of each is the label of the last record of that tag and
\* value, chosen by the precedence (whole, or cut to the truncation length);
\* records of a tag that is no field add nothing
C9_LabelPrecedence ==
    Generated =>
        /\ {ToInt(f.tag) : f \in Range(Doc.fields)} = DOMAIN fields
        /\ \A f \in Range(Doc.fields) :
              /\ {e.value : e \in Range(f.enums)}
                    = {enum.Value : enum \in {r \in Range(enumsXml) :
                                                 ToInt(r.Tag) = ToInt(f.tag)}}
              /\ \A e \in Range(f.enums) :
                    LET label == Label(Last(EnumsOf(ToInt(f.tag), e.value)))
                    IN  e.desc \in {label, Prefix(label, TruncLen)}

\* the versions main has been through
Handled == {versions[i] : i \in 1..(vi - 1)}

\* the Base directory of a version is there, with or without every table
HasDir(v) == baseDir[v].exists

Complete(v) == baseDir[v].exists /\ baseDir[v].files = Files

Warned(v) == \E i \in 1..Len(log) : log[i] = [ev |-> "warning", version |-> v]

Written(v) == output_name(v) \in DOMAIN outputs

\* the run is over, normally or not
Ended == pc \in {"done", "crashed"}

\* C6: once the run has skipped a version whose Base directory is missing, it
\* ends normally, with no document written for the versions without a
\* directory and one written for every other requested version, before or
\* after the skipped one
C6_MissingDirectoryNotFatal ==
    Ended /\ (\E v \in Handled : ~HasDir(v)) =>
        /\ pc = "done"
        /\ \A v \in Range(versions) :
              /\ ~HasDir(v) => Warned(v) /\ ~Written(v)
              /\ HasDir(v) => Written(v)

\* C7: a version whose directory is there and lacks a table is skipped with
\* a warning, and the run goes on to the next version
C7_MissingFileSkipped ==
    /\ pc # "crashed"
    /\ \A v \in Handled : HasDir(v) /\ ~Complete(v) => Warned(v) /\ ~Written(v)

====
